---- MODULE Spec2Model ----
(***************************************************************************)
(* Model of homeassistant/components/light/__init__.py: color-mode         *)
(* validation, the lighting profile store and the turn_on / turn_off /     *)
(* toggle service handlers.                                                *)
(*                                                                         *)
(* A dict of service parameters is a function whose DOMAIN is the set of   *)
(* keys present.  An Optional[...] attribute is a sequence of length 0     *)
(* (None) or 1 (the value).                                                *)
(***************************************************************************)
EXTENDS Integers, Sequences, FiniteSets, TLC

VARIABLES
    light,      \* the LightEntity a service call targets
    profiles,   \* Profiles.data: profile name -> Profile
    pc,         \* where the service call in flight stands
    service,    \* the service that was called
    request,    \* the service data as the caller sent it
    data,       \* call.data["params"]: the data after schema and preprocess_data
    hist,       \* the handler's local `params` after lines 396, 401, 434 and 531
    call,       \* the command the device received, if any
    fnIn,       \* argument of the pure function under test
    fnOut       \* its result

vars == <<light, profiles, pc, service, request, data, hist, call, fnIn, fnOut>>

----------------------------------------------------------------------------
(* Optional values and dicts *)

None == <<>>

Some(v) == <<v>>

IsNone(o) == Len(o) = 0

Val(o) == o[1]

EmptyDict == [k \in {} |-> 0]

Has(d, k) == k \in DOMAIN d

DictPop(d, k) == [x \in (DOMAIN d) \ {k} |-> d[x]]

DictSet(d, k, v) == [x \in (DOMAIN d) \cup {k} |-> IF x = k THEN v ELSE d[x]]

DictSetDefault(d, k, v) == IF Has(d, k) THEN d ELSE DictSet(d, k, v)

DictKeep(d, keys) == [x \in (DOMAIN d) \cap keys |-> d[x]]

Min2(a, b) == IF a < b THEN a ELSE b

Max2(a, b) == IF a > b THEN a ELSE b

\* Python's round() on the rational n/d (d > 0): to nearest, ties to even.
PyRound(n, d) ==
    LET q == n \div d
        r == n % d
    IN  IF 2 * r < d THEN q
        ELSE IF 2 * r > d THEN q + 1
        ELSE IF q % 2 = 0 THEN q ELSE q + 1

\* bitmask & flag, for a single-bit flag
HasFlag(mask, flag) == (mask \div flag) % 2 = 1

----------------------------------------------------------------------------
(* Feature flags and color modes *)

EFFECT == 4

FLASH == 8

TRANSITION == 32

SUPPORT_BRIGHTNESS == 1

SUPPORT_COLOR_TEMP == 2

SUPPORT_COLOR == 16

SUPPORT_WHITE_VALUE == 128

ColorMode ==
    {"unknown", "onoff", "brightness", "color_temp", "hs", "xy", "rgb", "rgbw",
     "rgbww", "white"}

VALID_COLOR_MODES == ColorMode \ {"unknown"}

COLOR_MODES_BRIGHTNESS == VALID_COLOR_MODES \ {"onoff"}

COLOR_MODES_COLOR == {"hs", "rgb", "rgbw", "rgbww", "xy"}

brightness_supported(color_modes) ==
    \E mode \in color_modes : mode \in COLOR_MODES_BRIGHTNESS

\* any() over the iterable with one membership test dropped
color_supported_NoRgbww(color_modes) ==
    \E mode \in color_modes : mode \in COLOR_MODES_COLOR \ {"rgbww"}

color_supported(color_modes) ==
    \E mode \in color_modes : mode \in COLOR_MODES_COLOR

\* raise vol.Error is ok = FALSE
valid_supported_color_modes(color_modes) ==
    IF \/ color_modes = {}
       \/ "unknown" \in color_modes
       \/ ("brightness" \in color_modes /\ Cardinality(color_modes) > 1)
       \/ ("onoff" \in color_modes /\ Cardinality(color_modes) > 1)
       \/ ("white" \in color_modes /\ ~color_supported(color_modes))
    THEN [ok |-> FALSE, value |-> {}]
    ELSE [ok |-> TRUE, value |-> color_modes]

----------------------------------------------------------------------------
(* Idle values of the variables a specification does not use *)

NoLight ==
    [declared |-> FALSE, supported_color_modes |-> {}, supported_features |-> 0,
     is_on |-> FALSE, brightness |-> None]

NoCall == [verb |-> "none", params |-> EmptyDict]

NoHist ==
    [resolved |-> EmptyDict, defaulted |-> EmptyDict, emulated |-> EmptyDict,
     converted |-> EmptyDict]

DispatchIdle ==
    /\ light = NoLight
    /\ profiles = EmptyDict
    /\ pc = "idle"
    /\ service = "none"
    /\ request = EmptyDict
    /\ data = EmptyDict
    /\ hist = NoHist
    /\ call = NoCall

dispatchVars == <<light, profiles, pc, service, request, data, hist, call>>

----------------------------------------------------------------------------
(* SpecModes: valid_supported_color_modes on every set of color modes *)

InitModes ==
    /\ DispatchIdle
    /\ fnIn \in SUBSET ColorMode
    /\ fnOut = [done |-> FALSE, ok |-> FALSE, value |-> {}]

Validate ==
    /\ ~fnOut.done
    /\ fnOut' = [done |-> TRUE,
                 ok |-> valid_supported_color_modes(fnIn).ok,
                 value |-> valid_supported_color_modes(fnIn).value]
    /\ UNCHANGED <<fnIn, dispatchVars>>

NextModes == Validate

SpecModes == InitModes /\ [][NextModes]_vars

\* C1: valid_supported_color_modes(S) returns S exactly when S is non-empty,
\* has no 'unknown', holds 'onoff' or 'brightness' only alone, and holds
\* 'white' only together with one of hs, xy, rgb, rgbw, rgbww; otherwise it
\* raises.
C1_ValidIff ==
    fnOut.done =>
        LET S == fnIn
            rule ==
                /\ S # {}
                /\ "unknown" \notin S
                /\ \A m \in {"onoff", "brightness"} : m \in S => S = {m}
                /\ "white" \in S => S \cap {"hs", "xy", "rgb", "rgbw", "rgbww"} # {}
        IN  /\ fnOut.ok <=> rule
            /\ fnOut.ok => fnOut.value = S

C1_Witness ==
    /\ fnOut.done
    /\ fnOut.ok
    /\ fnIn = {"white", "rgbww"}

----------------------------------------------------------------------------
(* homeassistant.util.color.  A color value is [space, base, via]: a       *)
(* literal tuple has via = <<>>; the result of a conversion whose value    *)
(* the specification does not give is the term that records the input      *)
(* tuple and the conversions applied to it.  XY coordinates are in         *)
(* thousandths.                                                            *)

Color(space, base) == [space |-> space, base |-> base, via |-> <<>>]

Converted(c, fn, space) == [space |-> space, base |-> c.base, via |-> Append(c.via, fn)]

color_RGB_to_hs(rgb) ==
    IF rgb = Color("rgb", <<255, 0, 0>>)
    THEN Color("hs", <<0, 100>>)
    ELSE Converted(rgb, "RGB_to_hs", "hs")

color_xy_to_hs(xy) == Converted(xy, "xy_to_hs", "hs")

color_rgbw_to_rgb(rgbw) == Converted(rgbw, "rgbw_to_rgb", "rgb")

color_rgbww_to_rgb(rgbww, min_mireds, max_mireds) ==
    Converted(rgbww, "rgbww_to_rgb", "rgb")

color_hs_to_RGB(hs) == Converted(hs, "hs_to_RGB", "rgb")

color_hs_to_xy(hs) == Converted(hs, "hs_to_xy", "xy")

color_rgb_to_rgbw(rgb) == Converted(rgb, "rgb_to_rgbw", "rgbw")

color_rgb_to_rgbww(rgb, min_mireds, max_mireds) ==
    Converted(rgb, "rgb_to_rgbww", "rgbww")

color_RGB_to_xy(rgb) == Converted(rgb, "RGB_to_xy", "xy")

color_xy_to_RGB(xy) == Converted(xy, "xy_to_RGB", "rgb")

\* brightness is Optional: params.get(ATTR_BRIGHTNESS, light.brightness)
color_temperature_to_rgbww(color_temp, brightness, min_mireds, max_mireds) ==
    [space |-> "rgbww",
     base |-> <<color_temp, min_mireds, max_mireds>> \o brightness,
     via |-> <<"temperature_to_rgbww">>]

color_temperature_mired_to_kelvin(mired) == 1000000 \div mired

color_temperature_kelvin_to_mired(kelvin) == 1000000 \div kelvin

color_temperature_to_hs(temp_k) ==
    [space |-> "hs", base |-> <<temp_k>>, via |-> <<"temperature_to_hs">>]

KnownColorNames == {"red"}

\* ok = FALSE is ValueError
color_name_to_rgb(color_name) ==
    IF color_name = "red"
    THEN [ok |-> TRUE, value |-> Color("rgb", <<255, 0, 0>>)]
    ELSE [ok |-> FALSE, value |-> Color("rgb", <<>>)]

----------------------------------------------------------------------------
(* Profile and Profiles *)

\* Profile.__post_init__: hs_color is derived from (color_x, color_y)
Profile(color_x, color_y, brightness, transition) ==
    [hs_color |-> IF IsNone(color_x) \/ IsNone(color_y)
                  THEN None
                  ELSE Some(color_xy_to_hs(Color("xy", <<Val(color_x), Val(color_y)>>))),
     brightness |-> brightness,
     transition |-> transition]

SetOpt(params, key, opt) ==
    IF IsNone(opt) THEN params ELSE DictSet(params, key, Val(opt))

SetDefaultOpt(params, key, opt) ==
    IF IsNone(opt) THEN params ELSE DictSetDefault(params, key, Val(opt))

\* setdefault replaced by plain assignment
apply_profile_Overwrite(profiles_data, name, params) ==
    IF name \notin DOMAIN profiles_data THEN params
    ELSE SetOpt(SetOpt(SetOpt(params, "hs_color", profiles_data[name].hs_color),
                       "brightness", profiles_data[name].brightness),
                "transition", profiles_data[name].transition)

apply_profile(profiles_data, name, params) ==
    IF name \notin DOMAIN profiles_data THEN params
    ELSE SetDefaultOpt(
             SetDefaultOpt(
                 SetDefaultOpt(params, "hs_color", profiles_data[name].hs_color),
                 "brightness", profiles_data[name].brightness),
             "transition", profiles_data[name].transition)

----------------------------------------------------------------------------
(* SpecProfile: apply_profile on small stores and params *)

\* number of distinct x coordinates / brightness levels / transition times a
\* profile row is drawn from
MaxProfileLevels == 1

ProfileChoices ==
    {Profile(x, y, b, t) :
        x \in {None} \cup {Some(700 + i) : i \in 1..MaxProfileLevels},
        y \in {None, Some(299)},
        b \in {None} \cup {Some(143 + i) : i \in 1..MaxProfileLevels},
        t \in {None} \cup {Some(4 + i) : i \in 1..MaxProfileLevels}}

ParamChoices ==
    {[k \in keys |->
        CASE k = "hs_color" -> Color("hs", <<240, 50>>)
          [] k = "brightness" -> 200
          [] k = "transition" -> 2
          [] OTHER -> "colorloop"] :
        keys \in SUBSET {"hs_color", "brightness", "transition", "effect"}}

InitProfile ==
    /\ light = NoLight
    /\ pc = "idle"
    /\ service = "none"
    /\ request = EmptyDict
    /\ data = EmptyDict
    /\ hist = NoHist
    /\ call = NoCall
    /\ \E p \in ProfileChoices : profiles = [n \in {"relax"} |-> p]
    /\ \E n \in {"relax", "nosuch"}, params \in ParamChoices :
          fnIn = [name |-> n, params |-> params]
    /\ fnOut = [applied |-> 0, params |-> fnIn.params, once |-> fnIn.params]

\* two successive calls of profiles.apply_profile(name, params) on one dict
ApplyProfile ==
    /\ fnOut.applied < 2
    /\ fnOut' = [applied |-> fnOut.applied + 1,
                 params |-> apply_profile(profiles, fnIn.name, fnOut.params),
                 once |-> fnOut.params]
    /\ UNCHANGED <<fnIn, dispatchVars>>

NextProfile == ApplyProfile

SpecProfile == InitProfile /\ [][NextProfile]_vars

ProfileFields == {"hs_color", "brightness", "transition"}

\* C9: apply_profile adds only profile fields that are absent and never
\* changes a field already present; a profile whose fields are all present,
\* or an unknown name, leaves params unchanged; applying twice equals
\* applying once.
C9_ApplyProfileOnlyAdds ==
    fnOut.applied >= 1 =>
        LET before == fnIn.params
            after == fnOut.params
            known == fnIn.name \in DOMAIN profiles
            given == IF known
                     THEN {f \in ProfileFields : ~IsNone(profiles[fnIn.name][f])}
                     ELSE {}
        IN  /\ \A k \in DOMAIN before : k \in DOMAIN after /\ after[k] = before[k]
            /\ (DOMAIN after) \ (DOMAIN before) = given \ (DOMAIN before)
            /\ \A k \in (DOMAIN after) \ (DOMAIN before) :
                  after[k] = Val(profiles[fnIn.name][k])
            /\ given \subseteq DOMAIN before => after = before
            /\ ~known => after = before
            /\ fnOut.applied = 2 => after = fnOut.once

C9_Witness ==
    /\ fnOut.applied = 2
    /\ fnIn.name = "relax"
    /\ Has(fnIn.params, "brightness")
    /\ ~Has(fnIn.params, "transition")
    /\ ~IsNone(profiles["relax"].brightness)
    /\ ~IsNone(profiles["relax"].transition)
    /\ fnOut.params["brightness"] = 200
    /\ fnOut.params["transition"] = 5

----------------------------------------------------------------------------
(* The light entity *)

ENTITY_ID == "light.kitchen"

min_mireds == 153

max_mireds == 500

\* `not supported_color_modes` is true of None and of the empty set
Truthy(l) == l.declared /\ l.supported_color_modes # {}

light_internal_supported_color_modes_BrightnessAlways(l) ==
    IF l.declared THEN l.supported_color_modes
    ELSE
        LET f == l.supported_features
            s == (IF HasFlag(f, SUPPORT_COLOR_TEMP) THEN {"color_temp"} ELSE {})
                 \cup (IF HasFlag(f, SUPPORT_COLOR) THEN {"hs"} ELSE {})
                 \cup (IF HasFlag(f, SUPPORT_WHITE_VALUE) THEN {"rgbw"} ELSE {})
                 \cup (IF HasFlag(f, SUPPORT_BRIGHTNESS) THEN {"brightness"} ELSE {})
        IN  IF s = {} THEN {"onoff"} ELSE s

light_internal_supported_color_modes(l) ==
    IF l.declared THEN l.supported_color_modes
    ELSE
        LET f == l.supported_features
            s == (IF HasFlag(f, SUPPORT_COLOR_TEMP) THEN {"color_temp"} ELSE {})
                 \cup (IF HasFlag(f, SUPPORT_COLOR) THEN {"hs"} ELSE {})
                 \cup (IF HasFlag(f, SUPPORT_WHITE_VALUE) THEN {"rgbw"} ELSE {})
            s2 == IF HasFlag(f, SUPPORT_BRIGHTNESS) /\ s = {} THEN {"brightness"} ELSE s
        IN  IF s2 = {} THEN {"onoff"} ELSE s2

----------------------------------------------------------------------------
(* Service schemas and preprocess_data *)

BRIGHTNESS_GROUP ==
    {"brightness", "brightness_pct", "brightness_step", "brightness_step_pct"}

COLOR_GROUP ==
    {"profile", "color_name", "color_temp", "kelvin", "hs_color", "rgb_color",
     "rgbw_color", "rgbww_color", "xy_color", "white"}

LIGHT_TURN_ON_KEYS ==
    BRIGHTNESS_GROUP \cup COLOR_GROUP
    \cup {"transition", "white_value", "flash", "effect"}

LIGHT_TURN_OFF_KEYS == {"transition", "flash"}

\* the color keys declared without their vol.Exclusive group
LIGHT_TURN_ON_SCHEMA_NoColorGroup(d) ==
    /\ DOMAIN d \subseteq BRIGHTNESS_GROUP \cup COLOR_GROUP
                          \cup {"transition", "white_value", "flash", "effect"}
    /\ Cardinality(DOMAIN d \cap BRIGHTNESS_GROUP) <= 1

\* vol.Exclusive: at most one key of a group may be present
LIGHT_TURN_ON_SCHEMA(d) ==
    /\ DOMAIN d \subseteq LIGHT_TURN_ON_KEYS
    /\ Cardinality(DOMAIN d \cap BRIGHTNESS_GROUP) <= 1
    /\ Cardinality(DOMAIN d \cap COLOR_GROUP) <= 1

LIGHT_TURN_OFF_SCHEMA(d) == DOMAIN d \subseteq LIGHT_TURN_OFF_KEYS

SchemaAccepts(svc, d) ==
    IF svc = "turn_off" THEN LIGHT_TURN_OFF_SCHEMA(d) ELSE LIGHT_TURN_ON_SCHEMA(d)

\* lines 286-287
PreProfile(profiles_data, params) ==
    IF Has(params, "profile")
    THEN apply_profile(profiles_data, params["profile"], DictPop(params, "profile"))
    ELSE params

\* an unknown name dropped with no color in its place
PreColorName_Drop(params) ==
    IF Has(params, "color_name")
    THEN IF color_name_to_rgb(params["color_name"]).ok
         THEN DictSet(DictPop(params, "color_name"), "rgb_color",
                      color_name_to_rgb(params["color_name"]).value)
         ELSE DictPop(params, "color_name")
    ELSE params

\* lines 289-294
PreColorName(params) ==
    IF Has(params, "color_name")
    THEN DictSet(DictPop(params, "color_name"), "rgb_color",
                 IF color_name_to_rgb(params["color_name"]).ok
                 THEN color_name_to_rgb(params["color_name"]).value
                 ELSE Color("rgb", <<255, 255, 255>>))
    ELSE params

\* lines 296-298
PreKelvin(params) ==
    IF Has(params, "kelvin")
    THEN DictSet(DictPop(params, "kelvin"), "color_temp",
                 color_temperature_kelvin_to_mired(params["kelvin"]))
    ELSE params

\* lines 300-302
PreBrightnessPct(params) ==
    IF Has(params, "brightness_pct")
    THEN DictSet(DictPop(params, "brightness_pct"), "brightness",
                 PyRound(255 * params["brightness_pct"], 100))
    ELSE params

preprocess_turn_on_alternatives(profiles_data, params) ==
    IF Has(params, "brightness_step") \/ Has(params, "brightness_step_pct")
    THEN params
    ELSE PreBrightnessPct(PreKelvin(PreColorName(PreProfile(profiles_data, params))))

preprocess_data(profiles_data, d) == preprocess_turn_on_alternatives(profiles_data, d)

----------------------------------------------------------------------------
(* Profiles.apply_default *)

DefaultNames == <<ENTITY_ID \o ".default", "group.all_lights.default">>

\* the profile applied whatever the state of the light
apply_default_one_Full(profiles_data, name, state_on, params) ==
    IF name \in DOMAIN profiles_data
    THEN apply_profile(profiles_data, name, params)
    ELSE params

\* lines 692-701, the body of the loop
apply_default_one(profiles_data, name, state_on, params) ==
    IF name \in DOMAIN profiles_data
    THEN IF ~state_on \/ params = EmptyDict
         THEN apply_profile(profiles_data, name, params)
         ELSE IF ~IsNone(profiles_data[name].transition)
              THEN DictSetDefault(params, "transition",
                                  Val(profiles_data[name].transition))
              ELSE params
    ELSE params

\* for _entity_id in (entity_id, "group.all_lights"): both names are visited
apply_default(profiles_data, state_on, params) ==
    apply_default_one(profiles_data, DefaultNames[2], state_on,
        apply_default_one(profiles_data, DefaultNames[1], state_on, params))

----------------------------------------------------------------------------
(* async_handle_light_on_service, a stage per operator *)

\* lines 384-391: the step, a percentage scaled to 0..255
StepDelta(params) ==
    IF Has(params, "brightness_step")
    THEN params["brightness_step"]
    ELSE PyRound(params["brightness_step_pct"] * 255, 100)

StepPopped(params) ==
    IF Has(params, "brightness_step")
    THEN DictPop(params, "brightness_step")
    ELSE DictPop(params, "brightness_step_pct")

StepClamp(brightness) == Max2(0, Min2(255, brightness))

\* the step resolved without a second pass over the other shorthands
ResolveStep_StepOnly(l, profiles_data, params) ==
    IF Has(params, "brightness_step") \/ Has(params, "brightness_step_pct")
    THEN IF l.is_on /\ IsNone(l.brightness)
         THEN [ok |-> FALSE, params |-> params]
         ELSE [ok |-> TRUE,
               params |-> DictSet(StepPopped(params), "brightness",
                           StepClamp((IF l.is_on THEN Val(l.brightness) ELSE 0)
                                     + StepDelta(params)))]
    ELSE [ok |-> TRUE, params |-> params]

\* lines 383-396.  ok = FALSE is the TypeError of None + int: light.brightness
\* is None while the light is on.
ResolveStep(l, profiles_data, params) ==
    IF Has(params, "brightness_step") \/ Has(params, "brightness_step_pct")
    THEN IF l.is_on /\ IsNone(l.brightness)
         THEN [ok |-> FALSE, params |-> params]
         ELSE [ok |-> TRUE,
               params |-> preprocess_turn_on_alternatives(profiles_data,
                   DictSet(StepPopped(params), "brightness",
                           StepClamp((IF l.is_on THEN Val(l.brightness) ELSE 0)
                                     + StepDelta(params))))]
    ELSE [ok |-> TRUE, params |-> params]

\* lines 398-401
ApplyDefaults(l, profiles_data, params) ==
    IF (params = EmptyDict \/ ~l.is_on)
       \/ (params # EmptyDict /\ ~Has(params, "transition"))
    THEN apply_default(profiles_data, l.is_on, params)
    ELSE params

\* the rgbw color left as it is
LegacyRgbw_NoSplit(l, params) == params

\* lines 409-416
LegacyRgbw(l, params) ==
    IF /\ Has(params, "rgbw_color")
       /\ "rgbw" \in light_internal_supported_color_modes(l)
       /\ ~Truthy(l)
    THEN LET rgbw_color == params["rgbw_color"]
         IN  DictSet(DictSet(DictPop(params, "rgbw_color"),
                             "rgb_color", Color("rgb", SubSeq(rgbw_color.base, 1, 3))),
                     "white_value", rgbw_color.base[4])
    ELSE params

\* lines 419-434
EmulateColorTemp(l, params) ==
    IF ~Has(params, "color_temp") THEN params
    ELSE IF /\ Truthy(l)
            /\ "color_temp" \notin l.supported_color_modes
            /\ "rgbww" \in l.supported_color_modes
    THEN LET brightness == IF Has(params, "brightness")
                           THEN Some(params["brightness"])
                           ELSE l.brightness
         IN  DictSet(DictPop(params, "color_temp"), "rgbww_color",
                     color_temperature_to_rgbww(params["color_temp"], brightness,
                                                min_mireds, max_mireds))
    ELSE IF "color_temp" \notin light_internal_supported_color_modes(l)
    THEN IF color_supported(light_internal_supported_color_modes(l))
         THEN DictSet(DictPop(params, "color_temp"), "hs_color",
                      color_temperature_to_hs(
                          color_temperature_mired_to_kelvin(params["color_temp"])))
         ELSE DictPop(params, "color_temp")
    ELSE params

\* lines 439-451: supported_color_modes is not implemented
ConvertColorLegacy(params) ==
    IF Has(params, "rgb_color")
    THEN DictSet(DictPop(params, "rgb_color"), "hs_color",
                 color_RGB_to_hs(params["rgb_color"]))
    ELSE IF Has(params, "xy_color")
    THEN DictSet(DictPop(params, "xy_color"), "hs_color",
                 color_xy_to_hs(params["xy_color"]))
    ELSE IF Has(params, "rgbw_color")
    THEN DictSet(DictPop(params, "rgbw_color"), "hs_color",
                 color_RGB_to_hs(color_rgbw_to_rgb(params["rgbw_color"])))
    ELSE IF Has(params, "rgbww_color")
    THEN DictSet(DictPop(params, "rgbww_color"), "hs_color",
                 color_RGB_to_hs(color_rgbww_to_rgb(params["rgbww_color"],
                                                    min_mireds, max_mireds)))
    ELSE params

\* xy tried before rgbw and rgbww
ConvertHs_XyFirst(modes, params) ==
    LET hs_color == params["hs_color"]
        rest == DictPop(params, "hs_color")
    IN  IF "rgb" \in modes
        THEN DictSet(rest, "rgb_color", color_hs_to_RGB(hs_color))
        ELSE IF "xy" \in modes
        THEN DictSet(rest, "xy_color", color_hs_to_xy(hs_color))
        ELSE IF "rgbw" \in modes
        THEN DictSet(rest, "rgbw_color", color_rgb_to_rgbw(color_hs_to_RGB(hs_color)))
        ELSE IF "rgbww" \in modes
        THEN DictSet(rest, "rgbww_color",
                     color_rgb_to_rgbww(color_hs_to_RGB(hs_color), min_mireds, max_mireds))
        ELSE rest

\* lines 452-465
ConvertHs(modes, params) ==
    LET hs_color == params["hs_color"]
        rest == DictPop(params, "hs_color")
    IN  IF "rgb" \in modes
        THEN DictSet(rest, "rgb_color", color_hs_to_RGB(hs_color))
        ELSE IF "rgbw" \in modes
        THEN DictSet(rest, "rgbw_color", color_rgb_to_rgbw(color_hs_to_RGB(hs_color)))
        ELSE IF "rgbww" \in modes
        THEN DictSet(rest, "rgbww_color",
                     color_rgb_to_rgbww(color_hs_to_RGB(hs_color), min_mireds, max_mireds))
        ELSE IF "xy" \in modes
        THEN DictSet(rest, "xy_color", color_hs_to_xy(hs_color))
        ELSE rest

\* lines 466-477
ConvertRgb(modes, params) ==
    LET rgb_color == params["rgb_color"]
        rest == DictPop(params, "rgb_color")
    IN  IF "rgbw" \in modes
        THEN DictSet(rest, "rgbw_color", color_rgb_to_rgbw(rgb_color))
        ELSE IF "rgbww" \in modes
        THEN DictSet(rest, "rgbww_color",
                     color_rgb_to_rgbww(rgb_color, min_mireds, max_mireds))
        ELSE IF "hs" \in modes
        THEN DictSet(rest, "hs_color", color_RGB_to_hs(rgb_color))
        ELSE IF "xy" \in modes
        THEN DictSet(rest, "xy_color", color_RGB_to_xy(rgb_color))
        ELSE rest

\* the rgbww branch left out
ConvertXy_NoRgbww(modes, params) ==
    LET xy_color == params["xy_color"]
        rest == DictPop(params, "xy_color")
    IN  IF "hs" \in modes
        THEN DictSet(rest, "hs_color", color_xy_to_hs(xy_color))
        ELSE IF "rgb" \in modes
        THEN DictSet(rest, "rgb_color", color_xy_to_RGB(xy_color))
        ELSE IF "rgbw" \in modes
        THEN DictSet(rest, "rgbw_color", color_rgb_to_rgbw(color_xy_to_RGB(xy_color)))
        ELSE rest

\* lines 478-491
ConvertXy(modes, params) ==
    LET xy_color == params["xy_color"]
        rest == DictPop(params, "xy_color")
    IN  IF "hs" \in modes
        THEN DictSet(rest, "hs_color", color_xy_to_hs(xy_color))
        ELSE IF "rgb" \in modes
        THEN DictSet(rest, "rgb_color", color_xy_to_RGB(xy_color))
        ELSE IF "rgbw" \in modes
        THEN DictSet(rest, "rgbw_color", color_rgb_to_rgbw(color_xy_to_RGB(xy_color)))
        ELSE IF "rgbww" \in modes
        THEN DictSet(rest, "rgbww_color",
                     color_rgb_to_rgbww(color_xy_to_RGB(xy_color), min_mireds, max_mireds))
        ELSE rest

\* lines 492-504
ConvertRgbw(modes, params) ==
    LET rgb_color == color_rgbw_to_rgb(params["rgbw_color"])
        rest == DictPop(params, "rgbw_color")
    IN  IF "rgb" \in modes
        THEN DictSet(rest, "rgb_color", rgb_color)
        ELSE IF "rgbww" \in modes
        THEN DictSet(rest, "rgbww_color",
                     color_rgb_to_rgbww(rgb_color, min_mireds, max_mireds))
        ELSE IF "hs" \in modes
        THEN DictSet(rest, "hs_color", color_RGB_to_hs(rgb_color))
        ELSE IF "xy" \in modes
        THEN DictSet(rest, "xy_color", color_RGB_to_xy(rgb_color))
        ELSE rest

\* lines 505-519
ConvertRgbww(modes, params) ==
    LET rgb_color == color_rgbww_to_rgb(params["rgbww_color"], min_mireds, max_mireds)
        rest == DictPop(params, "rgbww_color")
    IN  IF "rgb" \in modes
        THEN DictSet(rest, "rgb_color", rgb_color)
        ELSE IF "rgbw" \in modes
        THEN DictSet(rest, "rgbw_color", color_rgb_to_rgbw(rgb_color))
        ELSE IF "hs" \in modes
        THEN DictSet(rest, "hs_color", color_RGB_to_hs(rgb_color))
        ELSE IF "xy" \in modes
        THEN DictSet(rest, "xy_color", color_RGB_to_xy(rgb_color))
        ELSE rest

\* lines 439-519: the if / elif chain, one branch at most
ConvertColor(l, params) ==
    LET modes == l.supported_color_modes
    IN  IF ~Truthy(l) THEN ConvertColorLegacy(params)
        ELSE IF Has(params, "hs_color") /\ "hs" \notin modes
        THEN ConvertHs(modes, params)
        ELSE IF Has(params, "rgb_color") /\ "rgb" \notin modes
        THEN ConvertRgb(modes, params)
        ELSE IF Has(params, "xy_color") /\ "xy" \notin modes
        THEN ConvertXy(modes, params)
        ELSE IF Has(params, "rgbw_color") /\ "rgbw" \notin modes
        THEN ConvertRgbw(modes, params)
        ELSE IF Has(params, "rgbww_color") /\ "rgbww" \notin modes
        THEN ConvertRgbww(modes, params)
        ELSE params

\* brightness popped, white left as requested
WhiteOverride_KeepWhite(l, params) ==
    IF Truthy(l) /\ Has(params, "white") /\ "white" \in l.supported_color_modes
    THEN DictPop(params, "brightness")
    ELSE params

\* lines 522-527: params[ATTR_WHITE] = params.pop(ATTR_BRIGHTNESS, params[ATTR_WHITE])
WhiteOverride(l, params) ==
    IF Truthy(l) /\ Has(params, "white") /\ "white" \in l.supported_color_modes
    THEN IF Has(params, "brightness")
         THEN DictSet(DictPop(params, "brightness"), "white", params["brightness"])
         ELSE params
    ELSE params

\* lines 530-531
DropWhiteValue(l, params) ==
    IF Truthy(l) THEN DictPop(params, "white_value") ELSE params

----------------------------------------------------------------------------
(* Parameter filters and the three handlers *)

\* the feature flags not consulted
filter_turn_off_params_AnyFeature(l, params) ==
    DictKeep(params, {"transition", "flash"})

\* lines 305-314
filter_turn_off_params(l, params) ==
    DictKeep(params,
        {"transition", "flash"}
        \ ((IF ~HasFlag(l.supported_features, FLASH) THEN {"flash"} ELSE {})
           \cup (IF ~HasFlag(l.supported_features, TRANSITION)
                 THEN {"transition"} ELSE {})))

\* only the feature flags consulted, not the color modes
filter_turn_on_params_FlagsOnly(l, params) ==
    LET f == l.supported_features
        drop ==
            (IF ~HasFlag(f, EFFECT) THEN {"effect"} ELSE {})
            \cup (IF ~HasFlag(f, FLASH) THEN {"flash"} ELSE {})
            \cup (IF ~HasFlag(f, TRANSITION) THEN {"transition"} ELSE {})
            \cup (IF ~HasFlag(f, SUPPORT_WHITE_VALUE) THEN {"white_value"} ELSE {})
    IN  DictKeep(params, (DOMAIN params) \ drop)

\* lines 317-350
filter_turn_on_params(l, params) ==
    LET f == l.supported_features
        modes == light_internal_supported_color_modes(l)
        drop ==
            (IF ~HasFlag(f, EFFECT) THEN {"effect"} ELSE {})
            \cup (IF ~HasFlag(f, FLASH) THEN {"flash"} ELSE {})
            \cup (IF ~HasFlag(f, TRANSITION) THEN {"transition"} ELSE {})
            \cup (IF ~HasFlag(f, SUPPORT_WHITE_VALUE) THEN {"white_value"} ELSE {})
            \cup (IF ~brightness_supported(modes) THEN {"brightness"} ELSE {})
            \cup (IF "color_temp" \notin modes THEN {"color_temp"} ELSE {})
            \cup (IF "hs" \notin modes THEN {"hs_color"} ELSE {})
            \cup (IF "rgb" \notin modes THEN {"rgb_color"} ELSE {})
            \cup (IF "rgbw" \notin modes THEN {"rgbw_color"} ELSE {})
            \cup (IF "rgbww" \notin modes THEN {"rgbww_color"} ELSE {})
            \cup (IF "white" \notin modes THEN {"white"} ELSE {})
            \cup (IF "xy" \notin modes THEN {"xy_color"} ELSE {})
    IN  DictKeep(params, (DOMAIN params) \ drop)

Outcome(raised, verb, params, h) ==
    [raised |-> raised, verb |-> verb, params |-> params, hist |-> h]

\* lines 538-545; h is what the caller recorded before it got here
async_handle_light_off_service(l, profiles_data, call_params, h) ==
    Outcome(FALSE, "turn_off",
            filter_turn_off_params(l,
                IF ~Has(call_params, "transition")
                THEN apply_default(profiles_data, TRUE, call_params)
                ELSE call_params),
            h)

\* line 533 with the test of brightness left out
IsZeroRequest_WhiteOnly(params) == Has(params, "white") /\ params["white"] = 0

\* line 533
IsZeroRequest(params) ==
    \/ (Has(params, "brightness") /\ params["brightness"] = 0)
    \/ (Has(params, "white") /\ params["white"] = 0)

\* lines 533-536; h holds the handler's params at each earlier point
Dispatch(l, profiles_data, call_params, h) ==
    IF IsZeroRequest(h.converted)
    THEN async_handle_light_off_service(l, profiles_data, call_params, h)
    ELSE Outcome(FALSE, "turn_on", filter_turn_on_params(l, h.converted), h)

\* lines 436-536
AfterEmulation(l, profiles_data, call_params, resolved, defaulted, emulated) ==
    Dispatch(l, profiles_data, call_params,
        [resolved |-> resolved, defaulted |-> defaulted, emulated |-> emulated,
         converted |-> DropWhiteValue(l, WhiteOverride(l, ConvertColor(l, emulated)))])

\* lines 403-536
AfterDefaults(l, profiles_data, call_params, resolved, defaulted) ==
    AfterEmulation(l, profiles_data, call_params, resolved, defaulted,
                   EmulateColorTemp(l, LegacyRgbw(l, defaulted)))

\* lines 383-536: an exception in the step resolution ends the handler
AfterStep(l, profiles_data, call_params, step) ==
    IF ~step.ok
    THEN Outcome(TRUE, "none", EmptyDict, NoHist)
    ELSE AfterDefaults(l, profiles_data, call_params, step.params,
                       ApplyDefaults(l, profiles_data, step.params))

\* lines 375-536
async_handle_light_on_service(l, profiles_data, call_params) ==
    AfterStep(l, profiles_data, call_params, ResolveStep(l, profiles_data, call_params))

\* the branches exchanged
async_handle_toggle_service_Inverted(l, profiles_data, call_params) ==
    IF ~l.is_on
    THEN async_handle_light_off_service(l, profiles_data, call_params, NoHist)
    ELSE async_handle_light_on_service(l, profiles_data, call_params)

\* lines 547-552
async_handle_toggle_service(l, profiles_data, call_params) ==
    IF l.is_on
    THEN async_handle_light_off_service(l, profiles_data, call_params, NoHist)
    ELSE async_handle_light_on_service(l, profiles_data, call_params)

HandlerOutcome(svc, l, profiles_data, call_params) ==
    CASE svc = "turn_on" -> async_handle_light_on_service(l, profiles_data, call_params)
      [] svc = "turn_off" ->
            async_handle_light_off_service(l, profiles_data, call_params, NoHist)
      [] OTHER -> async_handle_toggle_service(l, profiles_data, call_params)

----------------------------------------------------------------------------
(* Actions *)

\* The service registry validates the data against the service's schema, whose
\* last validator is preprocess_data; invalid data never reaches a handler.
ServiceCall(svc, d) ==
    /\ pc = "idle"
    /\ service' = svc
    /\ request' = d
    /\ IF SchemaAccepts(svc, d)
       THEN /\ pc' = "accepted"
            /\ data' = preprocess_data(profiles, d)
       ELSE /\ pc' = "rejected"
            /\ data' = EmptyDict
    /\ UNCHANGED <<light, profiles, hist, call, fnIn, fnOut>>

\* The handler runs up to its await of the device call without suspending.
HandleWith(out) ==
    /\ pc' = IF out.raised THEN "raised" ELSE "called"
    /\ call' = [verb |-> out.verb, params |-> out.params]
    /\ hist' = out.hist

Handle ==
    /\ pc = "accepted"
    /\ HandleWith(HandlerOutcome(service, light, profiles, data))
    /\ UNCHANGED <<light, profiles, service, request, data, fnIn, fnOut>>

\* The device carries out the command; what brightness it then reports is its
\* own business.
DeviceComplete(b) ==
    /\ pc = "called"
    /\ light' = [light EXCEPT !.is_on = (call.verb = "turn_on"), !.brightness = b]
    /\ pc' = "idle"
    /\ service' = "none"
    /\ request' = EmptyDict
    /\ data' = EmptyDict
    /\ hist' = NoHist
    /\ call' = NoCall
    /\ UNCHANGED <<profiles, fnIn, fnOut>>

\* A rejected or failed call is reported to the caller.
Return ==
    /\ pc \in {"rejected", "raised"}
    /\ pc' = "idle"
    /\ service' = "none"
    /\ request' = EmptyDict
    /\ data' = EmptyDict
    /\ hist' = NoHist
    /\ call' = NoCall
    /\ UNCHANGED <<light, profiles, fnIn, fnOut>>

----------------------------------------------------------------------------
(* Bounds of the dispatch specifications *)

\* at most this many of transition / white_value / flash / effect in a request
MaxExtras == 1

One(k, v) == [x \in {k} |-> v]

Merge(a, b) ==
    [x \in (DOMAIN a) \cup (DOMAIN b) |-> IF x \in DOMAIN a THEN a[x] ELSE b[x]]

FieldValues(k) ==
    CASE k = "brightness" -> {0, 200}
      [] k = "brightness_pct" -> {0, 50}
      [] k = "brightness_step" -> {50, -255}
      [] k = "brightness_step_pct" -> {10, -100}
      [] k = "profile" -> {"relax", "movie", "nosuch"}
      [] k = "color_name" -> {"red", "nosuch"}
      [] k = "color_temp" -> {300}
      [] k = "kelvin" -> {3000}
      [] k = "hs_color" -> {Color("hs", <<0, 100>>)}
      [] k = "rgb_color" -> {Color("rgb", <<255, 0, 0>>)}
      [] k = "rgbw_color" -> {Color("rgbw", <<255, 0, 0, 255>>)}
      [] k = "rgbww_color" -> {Color("rgbww", <<255, 0, 0, 128, 64>>)}
      [] k = "xy_color" -> {Color("xy", <<701, 299>>)}
      [] k = "white" -> {0, 100}
      [] k = "transition" -> {2}
      [] k = "white_value" -> {50}
      [] k = "flash" -> {"short"}
      [] k = "effect" -> {"colorloop"}

SingleChoices(group) ==
    {EmptyDict} \cup UNION {{One(k, v) : v \in FieldValues(k)} : k \in group}

ExtraChoices ==
    {[k \in ks |-> CHOOSE v \in FieldValues(k) : TRUE] :
        ks \in {s \in SUBSET {"transition", "white_value", "flash", "effect"} :
                    Cardinality(s) <= MaxExtras}}

\* two keys of one vol.Exclusive group
ConflictRequests ==
    UNION {{Merge(One(ks[1], CHOOSE v \in FieldValues(ks[1]) : TRUE),
                  One(ks[2], CHOOSE v \in FieldValues(ks[2]) : TRUE)) :
                ks \in {q \in g \X g : q[1] # q[2]}} :
            g \in {BRIGHTNESS_GROUP, COLOR_GROUP}}

TurnOnRequests ==
    {Merge(Merge(b, c), e) :
        b \in SingleChoices(BRIGHTNESS_GROUP), c \in SingleChoices(COLOR_GROUP),
        e \in ExtraChoices}
    \cup ConflictRequests

TurnOffRequests ==
    {e \in ExtraChoices : DOMAIN e \subseteq LIGHT_TURN_OFF_KEYS}

BrightnessLevels == {None, Some(250)}

Light(declared, modes, features) ==
    [declared |-> declared, supported_color_modes |-> modes,
     supported_features |-> features, is_on |-> FALSE, brightness |-> None]

CoreLights ==
    {Light(FALSE, {}, 0),
     Light(FALSE, {}, SUPPORT_BRIGHTNESS + SUPPORT_COLOR + SUPPORT_WHITE_VALUE + TRANSITION),
     Light(FALSE, {}, SUPPORT_BRIGHTNESS + SUPPORT_COLOR_TEMP + FLASH),
     Light(TRUE, {"onoff"}, 0),
     Light(TRUE, {"brightness"}, TRANSITION),
     Light(TRUE, {"color_temp", "hs"}, EFFECT + FLASH + TRANSITION),
     Light(TRUE, {"rgbww"}, EFFECT + FLASH + TRANSITION),
     Light(TRUE, {"rgb", "white"}, TRANSITION),
     Light(TRUE, {"xy", "rgbw"}, 0),
     Light(TRUE, {"hs", "rgb"}, FLASH + SUPPORT_WHITE_VALUE)}

Relax == Profile(Some(512), Some(415), Some(144), None)

\* a profile with a transition and no color
Movie == Profile(None, None, Some(60), Some(4))

NamedProfiles == Merge(One("relax", Relax), One("movie", Movie))

ProfileStores ==
    {NamedProfiles,
     Merge(NamedProfiles,
           One(DefaultNames[1], Profile(Some(300), Some(300), Some(100), Some(5)))),
     Merge(NamedProfiles,
           Merge(One(DefaultNames[1], Profile(Some(300), Some(300), Some(100), None)),
                 One(DefaultNames[2], Profile(None, None, Some(50), Some(7))))),
     Merge(NamedProfiles,
           One(DefaultNames[2], Profile(Some(300), Some(300), Some(0), Some(7))))}

----------------------------------------------------------------------------
(* Spec: every service on the core lights *)

Init ==
    /\ light \in CoreLights
    /\ profiles \in ProfileStores
    /\ pc = "idle"
    /\ service = "none"
    /\ request = EmptyDict
    /\ data = EmptyDict
    /\ hist = NoHist
    /\ call = NoCall
    /\ fnIn = 0
    /\ fnOut = 0

Next ==
    \/ \E d \in TurnOnRequests : ServiceCall("turn_on", d)
    \/ \E d \in TurnOnRequests : ServiceCall("toggle", d)
    \/ \E d \in TurnOffRequests : ServiceCall("turn_off", d)
    \/ Handle
    \/ \E b \in BrightnessLevels : DeviceComplete(b)
    \/ Return

Spec == Init /\ [][Next]_vars

----------------------------------------------------------------------------
(* Claims about the dispatch *)

\* the call in flight went through async_handle_light_on_service
OnHandled ==
    /\ pc = "called"
    /\ (service = "turn_on" \/ (service = "toggle" /\ ~light.is_on))

CurrentBrightness == IF light.is_on THEN Val(light.brightness) ELSE 0

HasStep(d) == Has(d, "brightness_step") \/ Has(d, "brightness_step_pct")

RequestedStep ==
    IF Has(request, "brightness_step")
    THEN request["brightness_step"]
    ELSE PyRound(request["brightness_step_pct"] * 255, 100)

Clamp255(x) == IF x < 0 THEN 0 ELSE IF x > 255 THEN 255 ELSE x

\* the default profile apply_default meets first
HasDefault == \E i \in 1..2 : DefaultNames[i] \in DOMAIN profiles

FirstDefault ==
    IF DefaultNames[1] \in DOMAIN profiles
    THEN profiles[DefaultNames[1]]
    ELSE profiles[DefaultNames[2]]

\* C2: a turn-on call whose brightness or white value resolves to exactly 0,
\* whether given explicitly, through brightness_pct, through a brightness step
\* or through a default profile, invokes the device's turn_off, not turn_on.
C2_ZeroTurnsOff ==
    OnHandled =>
        /\ (\E k \in {"brightness", "white"} :
                Has(hist.converted, k) /\ hist.converted[k] = 0)
           => call.verb = "turn_off"
        /\ (Has(request, "brightness") /\ request["brightness"] = 0)
           => call.verb = "turn_off"
        /\ (Has(request, "brightness_pct") /\ request["brightness_pct"] = 0)
           => call.verb = "turn_off"
        /\ (HasStep(request) /\ CurrentBrightness + RequestedStep <= 0)
           => call.verb = "turn_off"
        /\ (/\ ~light.is_on
            /\ DOMAIN request \cap BRIGHTNESS_GROUP = {}
            /\ ~Has(request, "profile")
            /\ \E i \in 1..2 :
                  /\ DefaultNames[i] \in DOMAIN profiles
                  /\ profiles[DefaultNames[i]].brightness = Some(0)
                  /\ \A j \in 1..(i - 1) :
                        DefaultNames[j] \in DOMAIN profiles
                        => IsNone(profiles[DefaultNames[j]].brightness))
           => call.verb = "turn_off"

C2_Witness ==
    /\ OnHandled
    /\ service = "turn_on"
    /\ light.is_on
    /\ light.brightness = Some(250)
    /\ request = One("brightness_step", -255)
    /\ hist.converted["brightness"] = 0
    /\ call.verb = "turn_off"

\* C3 (as claimed): for every turn-on call carrying brightness_step or
\* brightness_step_pct the handler resolves the brightness to the current
\* brightness (0 when the light is off) plus the step, clamped into [0,255].
C3_StepClamped ==
    (/\ pc \in {"called", "raised"}
     /\ (service = "turn_on" \/ (service = "toggle" /\ ~light.is_on))
     /\ HasStep(request))
    => /\ pc = "called"
       /\ Has(hist.resolved, "brightness")
       /\ hist.resolved["brightness"] = Clamp255(CurrentBrightness + RequestedStep)
       /\ ~HasStep(hist.resolved)

ConflictingRequest ==
    \/ Cardinality(DOMAIN request \cap BRIGHTNESS_GROUP) > 1
    \/ Cardinality(DOMAIN request \cap COLOR_GROUP) > 1

\* C4: a turn-on or toggle request with two fields of one exclusive group is
\* rejected by validation: no handler runs, neither turn_on nor turn_off is
\* invoked and no parameter is applied.
C4_ConflictRejected ==
    (service \in {"turn_on", "toggle"} /\ ConflictingRequest)
    => /\ pc = "rejected"
       /\ call = NoCall
       /\ data = EmptyDict
       /\ hist = NoHist

C4_Witness ==
    /\ service = "toggle"
    /\ DOMAIN request = {"color_temp", "white"}
    /\ pc = "rejected"
    /\ call.verb = "none"

DeclaresWhite == Truthy(light) /\ "white" \in light.supported_color_modes

\* C5 (as claimed): when a turn-on request carries both white and a brightness
\* value and the device declares the white mode, the white level sent to the
\* device is the requested white value.
C5_WhiteWins ==
    (/\ OnHandled
     /\ call.verb = "turn_on"
     /\ DeclaresWhite
     /\ Has(request, "white")
     /\ Has(hist.defaulted, "brightness"))
    => /\ Has(call.params, "white")
       /\ call.params["white"] = request["white"]

\* C5 (amended): in that case the brightness value wins: the white level sent
\* is the brightness value and no brightness key is sent; with no brightness
\* value the requested white value is sent unchanged.
C5_BrightnessOverridesWhite ==
    (/\ OnHandled
     /\ DeclaresWhite
     /\ Has(request, "white"))
    => /\ Has(hist.converted, "white")
       /\ ~Has(hist.converted, "brightness")
       /\ hist.converted["white"] =
             (IF Has(hist.defaulted, "brightness")
              THEN hist.defaulted["brightness"]
              ELSE request["white"])
       /\ (Has(request, "brightness")
           => hist.converted["white"] = request["brightness"])
       /\ call.verb = "turn_on"
          => /\ Has(call.params, "white")
             /\ call.params["white"] = hist.converted["white"]
             /\ ~Has(call.params, "brightness")

C5_Witness ==
    /\ OnHandled
    /\ DeclaresWhite
    /\ request = Merge(One("white", 100), One("brightness", 200))
    /\ call.verb = "turn_on"
    /\ call.params["white"] = 200

ColorFields == {"hs_color", "xy_color", "rgb_color", "rgbw_color", "rgbww_color"}

FieldOfMode(m) == m \o "_color"

\* C6 (as claimed): a requested color_temp is passed through when the device
\* supports color_temp; otherwise, when the declared modes contain rgbww, the
\* command holds the rgbww_color synthesized from (color_temp, brightness,
\* min_mireds, max_mireds) and no color_temp; otherwise, when the device
\* supports a color mode, it holds the color temperature converted through
\* Kelvin to HS in a supported representation and no color_temp.
C6_ColorTempEmulated ==
    (/\ OnHandled
     /\ call.verb = "turn_on"
     /\ Has(hist.resolved, "color_temp"))
    => LET modes == light_internal_supported_color_modes(light)
           ct == hist.resolved["color_temp"]
       IN  IF "color_temp" \in modes
           THEN Has(call.params, "color_temp") /\ call.params["color_temp"] = ct
           ELSE IF light.declared /\ "rgbww" \in light.supported_color_modes
           THEN /\ ~Has(call.params, "color_temp")
                /\ Has(call.params, "rgbww_color")
                /\ call.params["rgbww_color"] =
                      color_temperature_to_rgbww(ct,
                          IF Has(hist.defaulted, "brightness")
                          THEN Some(hist.defaulted["brightness"])
                          ELSE light.brightness,
                          min_mireds, max_mireds)
           ELSE IF color_supported(modes)
           THEN /\ ~Has(call.params, "color_temp")
                /\ \E f \in ColorFields :
                      /\ DOMAIN call.params \cap ColorFields = {f}
                      /\ \E m \in modes : f = FieldOfMode(m)
                      /\ call.params[f].base = <<1000000 \div ct>>
                      /\ call.params[f].via[1] = "temperature_to_hs"
           ELSE TRUE

\* the default profiles that give field f, in the order apply_default visits
DefaultsGiving(f) ==
    SelectSeq(DefaultNames,
              LAMBDA n : n \in DOMAIN profiles /\ ~IsNone(profiles[n][f]))

\* params before and after lines 398-401 agree on the keys of before
KeepsRequested(before, after) ==
    \A k \in DOMAIN before : k \in DOMAIN after /\ after[k] = before[k]

\* C10: with the light on and a non-empty request without transition a
\* default profile adds its transition and nothing else, and alters nothing;
\* with the light on and a transition in the request it changes nothing; with
\* the light off or an empty request every field the default profiles give is
\* added where the request has none, requested fields staying as they are.
C10_DefaultProfileMerge ==
    OnHandled =>
        LET before == hist.resolved
            after == hist.defaulted
            added == (DOMAIN after) \ (DOMAIN before)
        IN  /\ KeepsRequested(before, after)
            /\ (light.is_on /\ before # EmptyDict /\ ~Has(before, "transition"))
               => /\ added = IF DefaultsGiving("transition") # <<>>
                             THEN {"transition"} ELSE {}
                  /\ \A k \in added :
                        after[k] = Val(profiles[DefaultsGiving(k)[1]][k])
            /\ (light.is_on /\ Has(before, "transition")) => after = before
            /\ (~light.is_on \/ before = EmptyDict)
               => /\ added = {f \in ProfileFields : DefaultsGiving(f) # <<>>}
                             \ (DOMAIN before)
                  /\ \A k \in added :
                        after[k] = Val(profiles[DefaultsGiving(k)[1]][k])

C10_Witness ==
    /\ OnHandled
    /\ light.is_on
    /\ HasDefault
    /\ FirstDefault.brightness = Some(100)
    /\ ~IsNone(FirstDefault.hs_color)
    /\ FirstDefault.transition = Some(5)
    /\ hist.resolved = One("brightness", 200)
    /\ hist.defaulted = Merge(One("brightness", 200), One("transition", 5))

C10_WitnessFull ==
    /\ OnHandled
    /\ ~light.is_on
    /\ hist.resolved = One("brightness", 200)
    /\ DOMAIN hist.defaulted = {"brightness", "hs_color", "transition"}
    /\ hist.defaulted["brightness"] = 200

----------------------------------------------------------------------------
(* SpecColor: color requests on every light a device integration can declare *)

LegacyFeatureMasks ==
    {a + b + c + d : a \in {0, SUPPORT_BRIGHTNESS}, b \in {0, SUPPORT_COLOR_TEMP},
                     c \in {0, SUPPORT_COLOR}, d \in {0, SUPPORT_WHITE_VALUE}}

AllLights ==
    {Light(TRUE, modes, 0) :
        modes \in {m \in SUBSET VALID_COLOR_MODES : valid_supported_color_modes(m).ok}}
    \cup {Light(FALSE, {}, f) : f \in LegacyFeatureMasks}

ColorStores ==
    {One("relax", Relax),
     Merge(One("relax", Relax),
           One(DefaultNames[1], Profile(Some(300), Some(300), Some(100), None)))}

ColorRequests ==
    {Merge(b, c) :
        b \in {EmptyDict, One("brightness", 200)},
        c \in SingleChoices(ColorFields \cup {"color_temp", "color_name"})}

InitColor ==
    /\ light \in AllLights
    /\ profiles \in ColorStores
    /\ pc = "idle"
    /\ service = "none"
    /\ request = EmptyDict
    /\ data = EmptyDict
    /\ hist = NoHist
    /\ call = NoCall
    /\ fnIn = 0
    /\ fnOut = 0

NextColor ==
    \/ \E d \in ColorRequests : ServiceCall("turn_on", d)
    \/ Handle
    \/ \E b \in BrightnessLevels : DeviceComplete(b)

SpecColor == InitColor /\ [][NextColor]_vars

----------------------------------------------------------------------------
(* Claims about the color conversion *)

ModeOfField(f) == CHOOSE m \in COLOR_MODES_COLOR : FieldOfMode(m) = f

FirstSupported(order, modes) ==
    order[CHOOSE i \in 1..Len(order) :
              order[i] \in modes /\ \A j \in 1..(i - 1) : order[j] \notin modes]

DeclaresColor == Truthy(light) /\ light.supported_color_modes \cap COLOR_MODES_COLOR # {}

\* the one color field of the validated request, in a mode the device lacks
UnsupportedRequest(f) ==
    /\ OnHandled
    /\ DeclaresColor
    /\ ~HasDefault
    /\ DOMAIN data \cap COLOR_GROUP = {f}
    /\ ModeOfField(f) \notin light.supported_color_modes

\* C7: on a device that declares a color mode, with no default profile, a
\* turn-on request whose one color field is in a mode the device does not
\* support yields a turn_on command with exactly one color field, in a
\* supported mode and derived from the requested value; the requested field
\* is gone.  Device {hs} with rgb_color (255,0,0) gets hs_color (0,100).
C7_UnsupportedColorConverted ==
    \A f \in ColorFields :
        UnsupportedRequest(f)
        => /\ call.verb = "turn_on"
           /\ ~Has(call.params, f)
           /\ \E g \in ColorFields :
                 /\ DOMAIN call.params \cap ColorFields = {g}
                 /\ ModeOfField(g) \in light.supported_color_modes
                 /\ call.params[g].space = ModeOfField(g)
                 /\ \/ call.params[g].base = data[f].base /\ call.params[g].via # <<>>
                    \/ /\ data[f] = Color("rgb", <<255, 0, 0>>)
                       /\ call.params[g] = Color("hs", <<0, 100>>)
           /\ (light.supported_color_modes = {"hs"}
               /\ data[f] = Color("rgb", <<255, 0, 0>>))
              => call.params = Merge(One("hs_color", Color("hs", <<0, 100>>)),
                                     DictKeep(data, DOMAIN data \cap {"brightness"}))

C7_Witness ==
    /\ UnsupportedRequest("rgb_color")
    /\ light.supported_color_modes = {"hs"}
    /\ request = One("rgb_color", Color("rgb", <<255, 0, 0>>))
    /\ call = [verb |-> "turn_on",
               params |-> One("hs_color", Color("hs", <<0, 100>>))]

RgbFamily == {"rgb", "rgbw", "rgbww"}

FixedOrder == <<"hs", "rgb", "xy", "rgbw", "rgbww">>

\* same-family targets when one is supported, else the first of FixedOrder
FixedTargets(src, modes) ==
    IF src \in RgbFamily /\ RgbFamily \cap modes # {}
    THEN RgbFamily \cap modes
    ELSE {FirstSupported(FixedOrder, modes \cap COLOR_MODES_COLOR)}

\* C8 (as claimed): the target of the conversion is chosen by one order for
\* every source: a same-family mode first, then hs, rgb, xy, rgbw, rgbww.
C8_FixedOrder ==
    \A f \in ColorFields :
        UnsupportedRequest(f)
        => \E g \in ColorFields :
              /\ Has(call.params, g)
              /\ ModeOfField(g) \in FixedTargets(ModeOfField(f),
                                                 light.supported_color_modes)

ChainOrder == <<"hs", "rgb", "xy", "rgbw", "rgbww">>

PreferenceOrder(src) ==
    CASE src = "hs" -> <<"rgb", "rgbw", "rgbww", "xy">>
      [] src = "rgb" -> <<"rgbw", "rgbww", "hs", "xy">>
      [] src = "xy" -> <<"hs", "rgb", "rgbw", "rgbww">>
      [] src = "rgbw" -> <<"rgb", "rgbww", "hs", "xy">>
      [] src = "rgbww" -> <<"rgb", "rgbw", "hs", "xy">>

\* the color modes present before the conversion that the device lacks
UnsupportedPresent ==
    {m \in COLOR_MODES_COLOR :
        Has(hist.emulated, FieldOfMode(m)) /\ m \notin light.supported_color_modes}

\* C8 (amended): the conversion takes the first unsupported color field in
\* the order hs, rgb, xy, rgbw, rgbww and replaces it by the first supported
\* mode of an order that depends on the source: hs: rgb, rgbw, rgbww, xy;
\* rgb: rgbw, rgbww, hs, xy; xy: hs, rgb, rgbw, rgbww; rgbw: rgb, rgbww, hs,
\* xy; rgbww: rgb, rgbw, hs, xy.
C8_PerSourceOrder ==
    (OnHandled /\ DeclaresColor /\ UnsupportedPresent # {})
    => LET src == FirstSupported(ChainOrder, UnsupportedPresent)
           target == FirstSupported(PreferenceOrder(src), light.supported_color_modes)
           g == FieldOfMode(target)
       IN  /\ ~Has(hist.converted, FieldOfMode(src))
           /\ Has(hist.converted, g)
           /\ hist.converted[g].space = target
           /\ \/ hist.converted[g].base = hist.emulated[FieldOfMode(src)].base
              \/ hist.converted[g] = Color("hs", <<0, 100>>)
           /\ \A m \in COLOR_MODES_COLOR \ {src, target} :
                 /\ Has(hist.converted, FieldOfMode(m)) <=> Has(hist.emulated, FieldOfMode(m))
                 /\ Has(hist.emulated, FieldOfMode(m))
                    => hist.converted[FieldOfMode(m)] = hist.emulated[FieldOfMode(m)]
           /\ call.verb = "turn_on"
              => Has(call.params, g) /\ call.params[g] = hist.converted[g]

C8_Witness ==
    /\ UnsupportedRequest("hs_color")
    /\ light.supported_color_modes = {"xy", "rgbw"}
    /\ call.verb = "turn_on"
    /\ DOMAIN call.params = {"rgbw_color"}
    /\ call.params["rgbw_color"].via = <<"hs_to_RGB", "rgb_to_rgbw">>

----------------------------------------------------------------------------
(* Claims about the default profiles, the filters and the step *)

\* C11 (as claimed): when the entity's own default profile exists, every key
\* that apply_default adds to params comes from that profile and none from
\* "group.all_lights.default".
C11_GroupOnlyFallback ==
    (OnHandled /\ DefaultNames[1] \in DOMAIN profiles)
    => \A k \in (DOMAIN hist.defaulted) \ (DOMAIN hist.resolved) :
          /\ ~IsNone(profiles[DefaultNames[1]][k])
          /\ hist.defaulted[k] = Val(profiles[DefaultNames[1]][k])

----------------------------------------------------------------------------
(* SpecSetup: async_setup loads the profiles, then registers the services *)

\* at most this many rows after the header of a profile file
MaxRows == 2

\* A csv row: the name and the 3 or 4 cells after it; a cell is None for the
\* empty string, else the number it holds (xy in thousandths).
Row(name, cells) == [name |-> name, cells |-> cells]

\* cv.small_float / cv.byte, or _coerce_none
SmallFloatOrNone(cell) == IsNone(cell) \/ (0 <= Val(cell) /\ Val(cell) <= 1000)

ByteOrNone(cell) == IsNone(cell) \/ (0 <= Val(cell) /\ Val(cell) <= 255)

\* VALID_TRANSITION clamps, it does not reject
TransitionOrNone(cell) ==
    IF IsNone(cell) THEN None ELSE Some(Max2(0, Min2(6553, Val(cell))))

\* Profile.SCHEMA: vol.Any of the two vol.ExactSequence
SCHEMA(row) ==
    /\ Len(row.cells) \in {3, 4}
    /\ SmallFloatOrNone(row.cells[1])
    /\ SmallFloatOrNone(row.cells[2])
    /\ ByteOrNone(row.cells[3])

\* ok = FALSE is vol.MultipleInvalid
from_csv_row(row) ==
    IF SCHEMA(row)
    THEN [ok |-> TRUE,
          profile |-> Profile(row.cells[1], row.cells[2], row.cells[3],
                              IF Len(row.cells) = 4
                              THEN TransitionOrNone(row.cells[4]) ELSE None)]
    ELSE [ok |-> FALSE, profile |-> Profile(None, None, None, None)]

RowChoices ==
    {Row("relax", <<Some(512), Some(415), Some(144)>>),
     Row("relax", <<None, None, Some(10), Some(3)>>),
     Row("broken", <<Some(500), Some(500), Some(300)>>),
     Row(DefaultNames[1], <<None, None, Some(100), Some(7000)>>)}

RECURSIVE RowSeqs(_)
RowSeqs(n) ==
    IF n = 0 THEN {<<>>}
    ELSE RowSeqs(n - 1)
         \cup {Append(q, r) : q \in {x \in RowSeqs(n - 1) : Len(x) = n - 1},
                              r \in RowChoices}

\* None: os.path.isfile is false
FileChoices == {None} \cup {Some(rows) : rows \in RowSeqs(MaxRows)}

\* the loop of _load_profile_data is at row `row` of file `file`
LoaderAt(file, row, loaded, logged) ==
    [stage |-> "loading", file |-> file, row |-> row, profiles |-> loaded,
     logged |-> logged, installs |-> 0]

\* one iteration of the loops of _load_profile_data, or its return
LoadStep ==
    /\ fnOut.stage = "loading"
    /\ fnOut' =
         IF fnOut.file > Len(fnIn)
         THEN [fnOut EXCEPT !.stage = "loaded"]
         ELSE IF IsNone(fnIn[fnOut.file])
         THEN LoaderAt(fnOut.file + 1, 1, fnOut.profiles, fnOut.logged)
         ELSE IF fnOut.row > Len(Val(fnIn[fnOut.file]))
         THEN LoaderAt(fnOut.file + 1, 1, fnOut.profiles, fnOut.logged)
         ELSE IF ~from_csv_row(Val(fnIn[fnOut.file])[fnOut.row]).ok
         THEN LoaderAt(fnOut.file + 1, 1, fnOut.profiles, fnOut.logged + 1)
         ELSE LoaderAt(fnOut.file, fnOut.row + 1,
                       DictSet(fnOut.profiles,
                               Val(fnIn[fnOut.file])[fnOut.row].name,
                               from_csv_row(Val(fnIn[fnOut.file])[fnOut.row]).profile),
                       fnOut.logged)
    /\ UNCHANGED <<fnIn, dispatchVars>>

\* async_initialize: self.data = await ...
Install ==
    /\ fnOut.stage = "loaded"
    /\ profiles' = fnOut.profiles
    /\ fnOut' = [fnOut EXCEPT !.stage = "installed", !.installs = @ + 1]
    /\ UNCHANGED <<light, pc, service, request, data, hist, call, fnIn>>

\* the services registered whatever the loader has done
RegisterServices_AnyTime ==
    /\ pc = "unregistered"
    /\ pc' = "idle"
    /\ UNCHANGED <<light, profiles, service, request, data, hist, call, fnIn, fnOut>>

\* async_setup after await profiles.async_initialize()
RegisterServices ==
    /\ pc = "unregistered"
    /\ fnOut.stage = "installed"
    /\ pc' = "idle"
    /\ UNCHANGED <<light, profiles, service, request, data, hist, call, fnIn, fnOut>>

SetupRequests == {EmptyDict, One("profile", "relax")}

InitSetup ==
    /\ light = Light(TRUE, {"brightness"}, TRANSITION)
    /\ profiles = EmptyDict
    /\ pc = "unregistered"
    /\ service = "none"
    /\ request = EmptyDict
    /\ data = EmptyDict
    /\ hist = NoHist
    /\ call = NoCall
    /\ fnIn \in FileChoices \X FileChoices
    /\ fnOut = LoaderAt(1, 1, EmptyDict, 0)

NextSetup ==
    \/ LoadStep
    \/ Install
    \/ RegisterServices
    \/ \E d \in SetupRequests : ServiceCall("turn_on", d)
    \/ Handle
    \/ \E b \in BrightnessLevels : DeviceComplete(b)

SpecSetup == InitSetup /\ [][NextSetup]_vars

----------------------------------------------------------------------------
(* Claims about the loading of the profiles *)

LoadDone == fnOut.stage \in {"loaded", "installed"}

RowsOf(file) == IF IsNone(fnIn[file]) THEN <<>> ELSE Val(fnIn[file])

\* the rows that parse, in the order built-in file, user file
ParsingRows ==
    SelectSeq(RowsOf(1) \o RowsOf(2), LAMBDA r : from_csv_row(r).ok)

LastRowNamed(n) ==
    ParsingRows[CHOOSE i \in 1..Len(ParsingRows) :
                    /\ ParsingRows[i].name = n
                    /\ \A j \in (i + 1)..Len(ParsingRows) : ParsingRows[j].name # n]

\* C12 (as claimed): a row that fails to parse is logged and skipped; every
\* row of either file that parses, the rows after a failing row of the same
\* file included, is in the mapping the load returns, and a failure has been
\* logged when some row fails.
C12_RemainingRowsLoaded ==
    LoadDone =>
        /\ \A i \in 1..Len(ParsingRows) : ParsingRows[i].name \in DOMAIN fnOut.profiles
        /\ Len(ParsingRows) < Len(RowsOf(1) \o RowsOf(2)) => fnOut.logged >= 1

\* C13 (as claimed): the mapping the load returns holds exactly the names of
\* the rows of the two files, each with the entry of its last row in the order
\* built-in file, user file.
C13_UserOverrides ==
    LoadDone =>
        /\ DOMAIN fnOut.profiles = {ParsingRows[i].name : i \in 1..Len(ParsingRows)}
        /\ \A n \in DOMAIN fnOut.profiles :
              fnOut.profiles[n] = from_csv_row(LastRowNamed(n)).profile

\* C19: whenever the services are registered, so whenever a service call is
\* validated or handled, the load has returned and Profiles.data is the
\* mapping it returned, installed by one assignment; before that assignment
\* Profiles.data is the empty mapping of the constructor, never a part of the
\* mapping being built.
C19_CompleteMappingRead ==
    /\ pc # "unregistered"
       => /\ fnOut.stage = "installed"
          /\ fnOut.installs = 1
          /\ profiles = fnOut.profiles
    /\ fnOut.installs = 0 => profiles = EmptyDict
    /\ fnOut.installs <= 1

C19_Witness ==
    /\ pc = "called"
    /\ request = One("profile", "relax")
    /\ fnOut.stage = "installed"
    /\ Len(RowsOf(1)) = 2
    /\ Len(RowsOf(2)) = 2
    /\ "relax" \in DOMAIN profiles
    /\ hist.resolved = Merge(One("brightness", 10), One("transition", 3))

----------------------------------------------------------------------------
(* Claims about the parameters the device receives *)

\* C14: every turn_off the device receives, from the turn-off service, from
\* the toggle of a light that is on or from a turn-on whose brightness or white
\* is 0, carries no key other than transition and flash, and each of the two
\* only when the device has the feature flag.
C14_TurnOffParams ==
    (pc = "called" /\ call.verb = "turn_off")
    => /\ DOMAIN call.params \subseteq {"transition", "flash"}
       /\ Has(call.params, "transition") => HasFlag(light.supported_features, TRANSITION)
       /\ Has(call.params, "flash") => HasFlag(light.supported_features, FLASH)

C14_Witness ==
    /\ pc = "called"
    /\ service = "turn_on"
    /\ request = Merge(One("brightness", 0), One("rgb_color", Color("rgb", <<255, 0, 0>>)))
    /\ HasDefault
    /\ call.verb = "turn_off"
    /\ DOMAIN call.params = {"transition"}

\* C17: every key of a turn_on the device receives is one it supports:
\* effect, flash and transition only with their feature flag; white_value only
\* with the white-value flag on a device that declares no color modes;
\* brightness only when a supported mode has brightness; color_temp, white
\* and the five color fields only when their mode is among the supported
\* (declared or flag-derived) modes.
C17_TurnOnParamsSupported ==
    (pc = "called" /\ call.verb = "turn_on")
    => /\ Has(call.params, "effect") => HasFlag(light.supported_features, EFFECT)
       /\ Has(call.params, "flash") => HasFlag(light.supported_features, FLASH)
       /\ Has(call.params, "transition")
          => HasFlag(light.supported_features, TRANSITION)
       /\ Has(call.params, "white_value")
          => /\ HasFlag(light.supported_features, SUPPORT_WHITE_VALUE)
             /\ ~Truthy(light)
       /\ Has(call.params, "brightness")
          => light_internal_supported_color_modes(light) \cap COLOR_MODES_BRIGHTNESS # {}
       /\ \A m \in {"color_temp", "white"} :
             Has(call.params, m) => m \in light_internal_supported_color_modes(light)
       /\ \A m \in COLOR_MODES_COLOR :
             Has(call.params, FieldOfMode(m)) => m \in light_internal_supported_color_modes(light)

C17_Witness ==
    /\ pc = "called"
    /\ call.verb = "turn_on"
    /\ light.supported_color_modes = {"hs", "rgb"}
    /\ HasFlag(light.supported_features, SUPPORT_WHITE_VALUE)
    /\ DOMAIN hist.emulated = {"brightness", "xy_color", "white_value"}
    /\ DOMAIN hist.converted = {"brightness", "hs_color"}
    /\ DOMAIN call.params = {"brightness", "hs_color"}

C17_WitnessLegacy ==
    /\ pc = "called"
    /\ call.verb = "turn_on"
    /\ ~light.declared
    /\ DOMAIN hist.converted = {"hs_color", "white_value", "effect"}
    /\ DOMAIN call.params = {"hs_color", "white_value"}

WhiteRgb == Color("rgb", <<255, 255, 255>>)

UnknownColorName ==
    /\ service \in {"turn_on", "toggle"}
    /\ Has(request, "color_name")
    /\ request["color_name"] \notin KnownColorNames
    /\ ~ConflictingRequest

\* the handler has ended as `out` says
EndedAs(out) ==
    /\ (pc = "raised") <=> out.raised
    /\ call = [verb |-> out.verb, params |-> out.params]
    /\ hist = out.hist

\* C15: a request with an unknown color_name is accepted by validation; the
\* handler works on params without color_name and with rgb_color
\* (255,255,255); and the call ends exactly as the call of the same request
\* with rgb_color (255,255,255) in place of the name ends: same verb and
\* parameters, and no exception that the other request does not raise too.
C15_UnknownColorIsWhite ==
    UnknownColorName
    => /\ pc # "rejected"
       /\ (pc \in {"accepted", "called"} /\ ~HasStep(request))
          => /\ ~Has(data, "color_name")
             /\ Has(data, "rgb_color")
             /\ data["rgb_color"] = WhiteRgb
       /\ OnHandled
          => /\ ~Has(hist.resolved, "color_name")
             /\ Has(hist.resolved, "rgb_color")
             /\ hist.resolved["rgb_color"] = WhiteRgb
       /\ pc \in {"called", "raised"}
          => EndedAs(HandlerOutcome(service, light, profiles,
                 preprocess_data(profiles,
                     DictSet(DictPop(request, "color_name"), "rgb_color", WhiteRgb))))

C15_Witness ==
    /\ UnknownColorName
    /\ pc = "called"
    /\ service = "turn_on"
    /\ request = One("color_name", "nosuch")
    /\ ~HasDefault
    /\ call = [verb |-> "turn_on", params |-> One("rgb_color", WhiteRgb)]

----------------------------------------------------------------------------
(* SpecColorMode: LightEntity._light_internal_color_mode *)

\* hs tested before rgbw
light_internal_color_mode_HsFirst(e) ==
    IF ~IsNone(e.color_mode) THEN Val(e.color_mode)
    ELSE IF "hs" \in light_internal_supported_color_modes(e) /\ ~IsNone(e.hs_color)
    THEN "hs"
    ELSE IF /\ "rgbw" \in light_internal_supported_color_modes(e)
            /\ ~IsNone(e.white_value)
            /\ ~IsNone(e.hs_color)
    THEN "rgbw"
    ELSE IF "color_temp" \in light_internal_supported_color_modes(e)
            /\ ~IsNone(e.color_temp)
    THEN "color_temp"
    ELSE IF "brightness" \in light_internal_supported_color_modes(e)
            /\ ~IsNone(e.brightness)
    THEN "brightness"
    ELSE IF "onoff" \in light_internal_supported_color_modes(e) THEN "onoff"
    ELSE "unknown"

\* lines 751-775
light_internal_color_mode(e) ==
    IF ~IsNone(e.color_mode) THEN Val(e.color_mode)
    ELSE IF /\ "rgbw" \in light_internal_supported_color_modes(e)
            /\ ~IsNone(e.white_value)
            /\ ~IsNone(e.hs_color)
    THEN "rgbw"
    ELSE IF "hs" \in light_internal_supported_color_modes(e) /\ ~IsNone(e.hs_color)
    THEN "hs"
    ELSE IF "color_temp" \in light_internal_supported_color_modes(e)
            /\ ~IsNone(e.color_temp)
    THEN "color_temp"
    ELSE IF "brightness" \in light_internal_supported_color_modes(e)
            /\ ~IsNone(e.brightness)
    THEN "brightness"
    ELSE IF "onoff" \in light_internal_supported_color_modes(e) THEN "onoff"
    ELSE "unknown"

\* what an entity declares: None (supported_color_modes is None) or a set
DeclaredChoices ==
    {None, Some({}), Some({"onoff"}), Some({"brightness"}), Some({"hs", "rgbw"}),
     Some({"color_temp", "xy"})}

Entities ==
    {[color_mode |-> cm,
      declared |-> ~IsNone(dm),
      supported_color_modes |-> IF IsNone(dm) THEN {} ELSE Val(dm),
      supported_features |-> f,
      white_value |-> wv,
      hs_color |-> hs,
      color_temp |-> ct,
      brightness |-> b] :
        cm \in {None, Some("xy")},
        dm \in DeclaredChoices,
        f \in LegacyFeatureMasks,
        wv \in {None, Some(0)},
        hs \in {None, Some(Color("hs", <<0, 100>>))},
        ct \in {None, Some(300)},
        b \in {None, Some(0)}}

InitColorMode ==
    /\ DispatchIdle
    /\ fnIn \in Entities
    /\ fnOut = [done |-> FALSE, value |-> "unknown"]

ReadColorMode ==
    /\ ~fnOut.done
    /\ fnOut' = [done |-> TRUE, value |-> light_internal_color_mode(fnIn)]
    /\ UNCHANGED <<fnIn, dispatchVars>>

NextColorMode == ReadColorMode

SpecColorMode == InitColorMode /\ [][NextColorMode]_vars

\* the modes the entity supports, derived from the feature flags when it
\* declares none
SupportedOf(e) == light_internal_supported_color_modes(e)

\* C16: the effective color mode is the declared color_mode when there is
\* one; otherwise the first that applies of: rgbw (white value and hs color
\* both set), hs (hs color set), color_temp (set), brightness (set), each only
\* when the mode is among the supported modes, then onoff when supported,
\* then unknown.  Every entity gets a mode.
C16_EffectiveColorMode ==
    fnOut.done =>
        /\ fnOut.value \in VALID_COLOR_MODES \cup {"unknown"}
        /\ ~IsNone(fnIn.color_mode) => fnOut.value = Val(fnIn.color_mode)
        /\ IsNone(fnIn.color_mode) =>
            LET rgbw == /\ "rgbw" \in SupportedOf(fnIn)
                        /\ ~IsNone(fnIn.white_value) /\ ~IsNone(fnIn.hs_color)
                hs == "hs" \in SupportedOf(fnIn) /\ ~IsNone(fnIn.hs_color)
                ct == "color_temp" \in SupportedOf(fnIn) /\ ~IsNone(fnIn.color_temp)
                br == "brightness" \in SupportedOf(fnIn) /\ ~IsNone(fnIn.brightness)
                oo == "onoff" \in SupportedOf(fnIn)
            IN  /\ fnOut.value = "rgbw" <=> rgbw
                /\ fnOut.value = "hs" <=> (~rgbw /\ hs)
                /\ fnOut.value = "color_temp" <=> (~rgbw /\ ~hs /\ ct)
                /\ fnOut.value = "brightness" <=> (~rgbw /\ ~hs /\ ~ct /\ br)
                /\ fnOut.value = "onoff" <=> (~rgbw /\ ~hs /\ ~ct /\ ~br /\ oo)
                /\ fnOut.value = "unknown"
                   <=> (~rgbw /\ ~hs /\ ~ct /\ ~br /\ ~oo)

C16_Witness ==
    /\ fnOut.done
    /\ IsNone(fnIn.color_mode)
    /\ ~fnIn.declared
    /\ fnIn.supported_features = SUPPORT_COLOR + SUPPORT_WHITE_VALUE
    /\ ~IsNone(fnIn.white_value)
    /\ ~IsNone(fnIn.hs_color)
    /\ ~IsNone(fnIn.color_temp)
    /\ fnOut.value = "rgbw"

----------------------------------------------------------------------------
(* SpecToggle: the toggle service while the device changes state by itself *)

\* The state of the light changes without this handler: the device reports
\* it, or another call has reached the device.  A handler runs without
\* suspending from its first line to its await of the device call, so the
\* change falls before the handler starts or while it awaits the device.
ExternalChange(on, b) ==
    /\ pc \in {"idle", "accepted", "called"}
    /\ light' = [light EXCEPT !.is_on = on, !.brightness = b]
    /\ light' # light
    /\ UNCHANGED <<profiles, pc, service, request, data, hist, call, fnIn, fnOut>>

ToggleRequests ==
    {Merge(b, c) :
        b \in SingleChoices(BRIGHTNESS_GROUP),
        c \in {EmptyDict, One("transition", 2),
               One("rgb_color", Color("rgb", <<255, 0, 0>>))}}

InitToggle ==
    /\ light \in CoreLights
    /\ profiles \in ProfileStores
    /\ pc = "idle"
    /\ service = "none"
    /\ request = EmptyDict
    /\ data = EmptyDict
    /\ hist = NoHist
    /\ call = NoCall
    /\ fnIn = 0
    /\ fnOut = 0

NextToggle ==
    \/ \E d \in ToggleRequests : ServiceCall("toggle", d)
    \/ Handle
    \/ \E b \in BrightnessLevels : DeviceComplete(b)
    \/ \E on \in BOOLEAN, b \in BrightnessLevels : ExternalChange(on, b)

SpecToggle == InitToggle /\ [][NextToggle]_vars

\* this step ends the handler as `out` says
StepEndsAs(out) ==
    /\ pc' = IF out.raised THEN "raised" ELSE "called"
    /\ call' = [verb |-> out.verb, params |-> out.params]
    /\ hist' = out.hist

\* C18: the step in which the toggle handler runs reads is_on and goes
\* through the turn-off handler when it reads on and through the turn-on
\* handler when it reads off; a change of the light's state after that step,
\* while the device call is awaited, leaves the dispatched verb and
\* parameters as they are.
C18_ToggleSingleRead ==
    [][/\ (pc = "accepted" /\ service = "toggle" /\ pc' # "accepted")
          => IF light.is_on
             THEN StepEndsAs(async_handle_light_off_service(light, profiles, data, NoHist))
             ELSE StepEndsAs(async_handle_light_on_service(light, profiles, data))
       /\ (pc = "called" /\ pc' = "called") => call' = call]_vars

\* the light read as on went off while turn_off was awaited
C18_Witness ==
    /\ pc = "called"
    /\ service = "toggle"
    /\ request = EmptyDict
    /\ call.verb = "turn_off"
    /\ ~light.is_on

----------------------------------------------------------------------------
(* The brightness step against the explicit brightness *)

\* the device call is the one `out` describes
CallIs(out) ==
    /\ ~out.raised
    /\ call = [verb |-> out.verb, params |-> out.params]

\* C20 (as claimed): a turn-on request with brightness_step or
\* brightness_step_pct ends in the device call, verb and parameters, of the
\* same request with brightness = clamp(current brightness + step, 0, 255) in
\* place of the step, for every state of the light and every other field.
C20_StepEqualsExplicit ==
    (/\ pc \in {"called", "raised"}
     /\ (service = "turn_on" \/ (service = "toggle" /\ ~light.is_on))
     /\ HasStep(request))
    => /\ pc = "called"
       /\ CallIs(HandlerOutcome(service, light, profiles,
              preprocess_data(profiles,
                  DictSet(StepPopped(request), "brightness",
                          Clamp255(CurrentBrightness + RequestedStep)))))

----------------------------------------------------------------------------
(* Claims about legacy lights and the content of the command *)

LegacyWhiteValueLight ==
    ~light.declared /\ HasFlag(light.supported_features, SUPPORT_WHITE_VALUE)

\* C21: on a light that declares no modes and has the white-value flag, a
\* turn_on with rgbw_color (r,g,b,w) reaches the device with white_value = w,
\* without rgbw_color and without rgb_color, and, when the light has the color
\* flag too, with hs_color = the HS conversion of (r,g,b).
C21_LegacyRgbwSplit ==
    (/\ pc = "called"
     /\ call.verb = "turn_on"
     /\ LegacyWhiteValueLight
     /\ Has(request, "rgbw_color"))
    => /\ Has(call.params, "white_value")
       /\ call.params["white_value"] = request["rgbw_color"].base[4]
       /\ ~Has(call.params, "rgbw_color")
       /\ ~Has(call.params, "rgb_color")
       /\ HasFlag(light.supported_features, SUPPORT_COLOR)
          => /\ Has(call.params, "hs_color")
             /\ call.params["hs_color"] =
                   color_RGB_to_hs(Color("rgb", SubSeq(request["rgbw_color"].base, 1, 3)))

C21_Witness ==
    /\ pc = "called"
    /\ LegacyWhiteValueLight
    /\ light.supported_features = SUPPORT_COLOR + SUPPORT_WHITE_VALUE
    /\ request = One("rgbw_color", Color("rgbw", <<255, 0, 0, 255>>))
    /\ HasDefault
    /\ ~light.is_on
    /\ call.verb = "turn_on"
    /\ DOMAIN call.params = {"brightness", "hs_color", "white_value"}
    /\ call.params["white_value"] = 255
    /\ call.params["hs_color"] = Color("hs", <<0, 100>>)

\* the handler's step hands exactly one command to the device
OneCommandIssued ==
    /\ call = NoCall
    /\ pc' = "called"
    /\ call'.verb \in {"turn_on", "turn_off"}

\* C22 (as claimed): every accepted turn_on, turn_off or toggle call ends in
\* exactly one device command, turn_on or turn_off, and the command stays the
\* only one until the device has carried it out.
C22_ExactlyOneCommand ==
    [][/\ pc = "accepted" => OneCommandIssued
       /\ pc = "called" => (pc' = "idle" /\ call' = NoCall)]_vars

\* the color fields a device command can carry: the exclusive color group of
\* the schema without its three shorthands
CommandColorFields == COLOR_GROUP \ {"profile", "color_name", "kelvin"}

\* C23 (as claimed): the command handed to the device's turn_on carries at
\* most one of hs_color, xy_color, rgb_color, rgbw_color, rgbww_color,
\* color_temp and white, whatever the request, the light and the profiles.
C23_SingleColorCommand ==
    (pc = "called" /\ call.verb = "turn_on")
        => Cardinality(DOMAIN call.params \cap CommandColorFields) <= 1

-----------------------------------------------------------------------------
(* The supported modes of an entity: _light_internal_supported_color_modes *)

\* every combination of the seven feature flags
AllFeatureMasks ==
    {a + b + c + d + e + f + g :
        a \in {0, SUPPORT_BRIGHTNESS}, b \in {0, SUPPORT_COLOR_TEMP},
        c \in {0, EFFECT}, d \in {0, FLASH}, e \in {0, SUPPORT_COLOR},
        f \in {0, TRANSITION}, g \in {0, SUPPORT_WHITE_VALUE}}

\* entities that declare no mode set, with every feature mask, and entities
\* that declare any set of modes at all, valid or not
SupportedEntities ==
    {Light(FALSE, {}, f) : f \in AllFeatureMasks}
    \cup {Light(TRUE, modes, f) :
            modes \in SUBSET ColorMode,
            f \in {0, SUPPORT_BRIGHTNESS + SUPPORT_COLOR + SUPPORT_WHITE_VALUE}}

InitSupported ==
    /\ DispatchIdle
    /\ fnIn \in SupportedEntities
    /\ fnOut = [done |-> FALSE, value |-> {}]

ReadSupported ==
    /\ ~fnOut.done
    /\ fnOut' = [done |-> TRUE, value |-> light_internal_supported_color_modes(fnIn)]
    /\ UNCHANGED <<fnIn, dispatchVars>>

NextSupported == ReadSupported

SpecSupported == InitSupported /\ [][NextSupported]_vars

\* C24: for an entity that declares no mode set, the set derived from its
\* feature mask is accepted by valid_supported_color_modes: it is not empty,
\* holds neither unknown nor white, and is exactly {brightness} or {onoff} when
\* it holds one of them; a declared set is returned as it is.
C24_DerivedModesValid ==
    fnOut.done =>
        IF fnIn.declared
        THEN fnOut.value = fnIn.supported_color_modes
        ELSE /\ valid_supported_color_modes(fnOut.value).ok
             /\ valid_supported_color_modes(fnOut.value).value = fnOut.value
             /\ fnOut.value # {}
             /\ fnOut.value \cap {"unknown", "white"} = {}
             /\ "brightness" \in fnOut.value => fnOut.value = {"brightness"}
             /\ "onoff" \in fnOut.value => fnOut.value = {"onoff"}

C24_Witness ==
    /\ fnOut.done
    /\ ~fnIn.declared
    /\ fnIn.supported_features = SUPPORT_BRIGHTNESS + SUPPORT_COLOR_TEMP + TRANSITION
    /\ fnOut.value = {"color_temp"}

C24_WitnessDeclared ==
    /\ fnOut.done
    /\ fnIn.declared
    /\ fnIn.supported_color_modes = {"brightness", "white"}
    /\ fnOut.value = {"brightness", "white"}

-----------------------------------------------------------------------------
(* Shorthand fields *)

\* the fields preprocess_turn_on_alternatives and the step resolution replace
ShorthandFields ==
    {"profile", "color_name", "kelvin", "brightness_pct", "brightness_step",
     "brightness_step_pct"}

\* C25: the device's turn_on never receives a shorthand field.  With or
\* without a brightness step, profile, color_name, kelvin, brightness_pct,
\* brightness_step and brightness_step_pct are gone from the parameters before
\* defaults and conversions run, kelvin replaced by color_temp =
\* int(1000000 / kelvin) and brightness_pct by brightness = round(255*pct/100).
C25_NoShorthandAtDevice ==
    (pc = "called" /\ call.verb = "turn_on")
        => /\ DOMAIN call.params \cap ShorthandFields = {}
           /\ DOMAIN hist.resolved \cap ShorthandFields = {}
           /\ Has(request, "kelvin")
                => /\ Has(hist.resolved, "color_temp")
                   /\ hist.resolved["color_temp"] = 1000000 \div request["kelvin"]
           /\ Has(request, "brightness_pct")
                => /\ Has(hist.resolved, "brightness")
                   /\ hist.resolved["brightness"]
                        = PyRound(255 * request["brightness_pct"], 100)

\* a step together with kelvin: both resolved by the handler
C25_Witness ==
    /\ pc = "called"
    /\ call.verb = "turn_on"
    /\ ~light.is_on
    /\ request = Merge(One("brightness_step", 50), One("kelvin", 3000))
    /\ DOMAIN data = {"brightness_step", "kelvin"}
    /\ Has(hist.resolved, "color_temp")
    /\ hist.resolved["color_temp"] = 333
    /\ Has(hist.resolved, "brightness")
    /\ hist.resolved["brightness"] = 50

\* brightness_pct resolved by validation
C25_WitnessPct ==
    /\ pc = "called"
    /\ call.verb = "turn_on"
    /\ request = One("brightness_pct", 50)
    /\ data = One("brightness", 128)
    /\ Has(call.params, "brightness")
    /\ call.params["brightness"] = 128

-----------------------------------------------------------------------------
(* FRITZ!SmartHome thermostat: target_temperature and hvac_mode.
   Temperatures are in tenths of a degree (127.0 is 1270). *)

ON_API_TEMPERATURE == 1270
OFF_API_TEMPERATURE == 1265
ON_REPORT_SET_TEMPERATURE == 300
OFF_REPORT_SET_TEMPERATURE == 0

HVAC_MODE_HEAT == "heat"
HVAC_MODE_OFF == "off"

\* FritzboxThermostat.target_temperature
target_temperature(device) ==
    IF device.target_temperature = Some(ON_API_TEMPERATURE)
    THEN Some(ON_REPORT_SET_TEMPERATURE)
    ELSE IF device.target_temperature = Some(OFF_API_TEMPERATURE)
    THEN Some(OFF_REPORT_SET_TEMPERATURE)
    ELSE device.target_temperature

\* off only for the off value of the API
hvac_mode_ApiOffOnly(device) ==
    IF device.target_temperature = Some(OFF_API_TEMPERATURE)
    THEN HVAC_MODE_OFF
    ELSE HVAC_MODE_HEAT

\* FritzboxThermostat.hvac_mode
hvac_mode(device) ==
    IF device.target_temperature
         \in {Some(OFF_REPORT_SET_TEMPERATURE), Some(OFF_API_TEMPERATURE)}
    THEN HVAC_MODE_OFF
    ELSE HVAC_MODE_HEAT

\* what the device can report as its target: nothing, or any value from 0.0
\* up to past the two special values of the API
DeviceTemperatures == {None} \cup {Some(t) : t \in 0..1300}

InitThermostat ==
    /\ DispatchIdle
    /\ fnIn \in {[target_temperature |-> t] : t \in DeviceTemperatures}
    /\ fnOut = [done |-> FALSE, target_temperature |-> None, hvac_mode |-> ""]

\* the state of the entity is read: both properties, from the same device data
ReadThermostat ==
    /\ ~fnOut.done
    /\ fnOut' = [done |-> TRUE,
                 target_temperature |-> target_temperature(fnIn),
                 hvac_mode |-> hvac_mode(fnIn)]
    /\ UNCHANGED <<fnIn, dispatchVars>>

NextThermostat == ReadThermostat

SpecThermostat == InitThermostat /\ [][NextThermostat]_vars

\* C26: the reported mode and the reported target agree for every device
\* value: the mode is off exactly when the reported target is 0.0, which
\* happens for the device values 0.0 and 126.5; 127.0 is reported as 30.0 with
\* mode heat; every other device value is reported as it is, with mode heat.
C26_ModeMatchesTarget ==
    fnOut.done =>
        /\ fnOut.hvac_mode = "off" <=> fnOut.target_temperature = Some(0)
        /\ fnOut.target_temperature = Some(0)
             <=> fnIn.target_temperature \in {Some(0), Some(1265)}
        /\ fnIn.target_temperature = Some(1270)
             => fnOut.target_temperature = Some(300) /\ fnOut.hvac_mode = "heat"
        /\ fnIn.target_temperature \notin {Some(0), Some(1265), Some(1270)}
             => /\ fnOut.target_temperature = fnIn.target_temperature
                /\ fnOut.hvac_mode = "heat"
        /\ fnOut.hvac_mode \in {"off", "heat"}

C26_Witness ==
    /\ fnOut.done
    /\ fnIn.target_temperature = Some(1265)
    /\ fnOut.target_temperature = Some(0)
    /\ fnOut.hvac_mode = "off"

C26_WitnessZero ==
    /\ fnOut.done
    /\ fnIn.target_temperature = Some(0)
    /\ fnOut.target_temperature = Some(0)
    /\ fnOut.hvac_mode = "off"

C26_WitnessOn ==
    /\ fnOut.done
    /\ fnIn.target_temperature = Some(1270)
    /\ fnOut.target_temperature = Some(300)
    /\ fnOut.hvac_mode = "heat"

====
